---- MODULE Spec2Model ----
(***************************************************************************)
(* Lesson booking back end (Express + MongoDB).                            *)
(*                                                                         *)
(* State: the `lessons` and `orders` collections of the WebStore database  *)
(* and, for every request in flight, the position and the locals of its    *)
(* async route handler.  A handler runs without interruption from one      *)
(* `await` to the next, so one action is one store operation together with *)
(* the synchronous code that follows it up to the next await or response.  *)
(* Handlers modelled: POST /orders, PUT /lessons/:id and GET /lessons of   *)
(* src/unnamed/part_000 (the PUT and GET handlers are the same in          *)
(* src/server.js), and POST /orders of src/server.js.                      *)
(***************************************************************************)
EXTENDS Integers, Sequences, FiniteSets, TLC

VARIABLES lessons, orders, post, put, get

vars == <<lessons, orders, post, put, get>>

(* ------------------------------ bounds --------------------------------- *)

\* largest number of line items in one request body
MaxItems == 2

\* the POST /orders requests (handlers that may overlap)
PostProcs == {"p1", "p2"}
PutProcs == {"put1"}
GetProcs == {"get1"}

\* ids a request may name; the ids outside DOMAIN InitLessons are unknown
ItemIds == {1, 2, 3}
\* quantities a line item may carry
Quantities == {1, 3}
\* prices a client may send with a line item
ClientPrices == {10, 20}
\* name / phoneNumber of a body: "" stands for a missing or empty field
NameVals == {"", "Ann"}
PhoneVals == {"", "555"}
\* spaces values a PUT body may carry
PutSpaces == {-1, 0, 3, 5}

\* the catalog at start-up
InitLessons ==
  (1 :> [id |-> 1, price |-> 20, spaces |-> 5]) @@
  (2 :> [id |-> 2, price |-> 10, spaces |-> 3])

(* --------------------------- request bodies ---------------------------- *)

LineItems == [id : ItemIds, quantity : Quantities, price : ClientPrices]

RECURSIVE SeqsUpTo(_, _)
SeqsUpTo(S, n) ==
  IF n = 0 THEN {<<>>}
  ELSE LET shorter == SeqsUpTo(S, n - 1)
       IN  shorter \cup {Append(s, x) : s \in {t \in shorter : Len(t) = n - 1}, x \in S}

\* req.body of POST /orders over the line items `lis`; hasItems = FALSE is a
\* body without `items`
BodiesOver(names, phones, lis) ==
  [name : names, phoneNumber : phones, hasItems : {TRUE},
   items : SeqsUpTo(lis, MaxItems)]
  \cup [name : names, phoneNumber : phones, hasItems : {FALSE}, items : {<<>>}]

\* every body: any field missing, any price
OrderBodies == BodiesOver(NameVals, PhoneVals, LineItems)

\* line items that carry the catalog price, as the front end sends them
CatalogPriced ==
  {li \in LineItems :
     li.price = IF li.id \in DOMAIN InitLessons THEN InitLessons[li.id].price ELSE 20}

\* bodies with name and phoneNumber present and catalog prices
PlainBodies == BodiesOver({"Ann"}, {"555"}, CatalogPriced)

\* plain bodies whose line items all ask for 3 places
TripleBodies == BodiesOver({"Ann"}, {"555"}, {li \in CatalogPriced : li.quantity = 3})

\* quantities of any sign, as a client is free to send them
LooseQuantities == {-1, 0, 1, 3}

\* plain bodies whose line items carry a quantity of any sign
LooseBodies ==
  BodiesOver({"Ann"}, {"555"},
             {li \in [id : ItemIds, quantity : LooseQuantities, price : ClientPrices] :
                li.price = IF li.id \in DOMAIN InitLessons
                           THEN InitLessons[li.id].price ELSE 20})

\* req.body of PUT /lessons/:id; hasSpaces = FALSE is a body without `spaces`
PutBodies ==
  [hasSpaces : {TRUE}, spaces : PutSpaces] \cup [hasSpaces : {FALSE}, spaces : {0}]

NoBody == [name |-> "", phoneNumber |-> "", hasItems |-> FALSE, items |-> <<>>]
NoPutBody == [hasSpaces |-> FALSE, spaces |-> 0]
NoLesson == [id |-> 0, price |-> 0, spaces |-> 0]

(* --------------------------- pure functions ---------------------------- *)

ItemIdsOf(items) == {items[n].id : n \in 1..Len(items)}

\* !name || !phoneNumber || !items || items.length === 0
MissingFields(body) ==
  \/ body.name = ""
  \/ body.phoneNumber = ""
  \/ ~body.hasItems
  \/ Len(body.items) = 0

\* collection.find({ id: { $in: ids } }).toArray(): the documents whose id is listed
FindIn(coll, ids) == [i \in (DOMAIN coll) \cap ids |-> coll[i]]

\* faulty variant of SomeNotFound: rejects only when no lesson at all was found
NoneFound(found, items) == Cardinality(DOMAIN found) = 0

\* faulty variant of SomeNotFound: compares with the number of distinct ids
\* listed, so a body listing an id twice passes
DistinctNotFound(found, items) ==
  Cardinality(DOMAIN found) # Cardinality(ItemIdsOf(items))

\* lessons.length !== items.length
SomeNotFound(found, items) == Cardinality(DOMAIN found) # Len(items)

\* faulty variant of NotEnough: also rejects a quantity equal to the spaces left
NotEnoughOrEqual(found, item) ==
  \/ item.id \notin DOMAIN found
  \/ found[item.id].spaces <= item.quantity

\* !lesson || lesson.spaces < item.quantity
NotEnough(found, item) ==
  \/ item.id \notin DOMAIN found
  \/ found[item.id].spaces < item.quantity

\* faulty variant of FirstShort: the loop checks the first line item only
FirstShortHeadOnly(found, items) ==
  IF Len(items) > 0 /\ NotEnough(found, items[1]) THEN 1 ELSE 0

\* the for loop of the capacity check: the index of the first line item it
\* rejects, 0 if it rejects none
FirstShort(found, items) ==
  LET short == {n \in 1..Len(items) : NotEnough(found, items[n])}
  IN  IF short = {} THEN 0 ELSE CHOOSE n \in short : \A m \in short : n <= m

\* items.reduce((sum, item) => sum + item.price * item.quantity, 0)
RECURSIVE TotalPrice(_)
TotalPrice(items) ==
  IF Len(items) = 0 THEN 0
  ELSE TotalPrice(SubSeq(items, 1, Len(items) - 1))
         + items[Len(items)].price * items[Len(items)].quantity

\* the order document built from the request body
BuildOrder(body) ==
  [name |-> body.name, phoneNumber |-> body.phoneNumber, items |-> body.items,
   totalPrice |-> TotalPrice(body.items)]

\* faulty variant of InsertOne: the document replaces what the collection holds
ReplaceAll(coll, doc) == <<doc @@ [_id |-> 1]>>

\* collection.insertOne(doc): the collection with the document appended, _id assigned
InsertOne(coll, doc) == Append(coll, doc @@ [_id |-> Len(coll) + 1])

\* faulty variant of IncSpaces: one place is taken whatever the quantity
IncSpacesByOne(coll, id, quantity) ==
  IF id \in DOMAIN coll
  THEN [coll EXCEPT ![id].spaces = @ - 1]
  ELSE coll

\* updateOne({ id }, { $inc: { spaces: -quantity } }): one atomic step of the store
IncSpaces(coll, id, quantity) ==
  IF id \in DOMAIN coll
  THEN [coll EXCEPT ![id].spaces = @ - quantity]
  ELSE coll

\* updateOne({ id }, { $set: { spaces } })
SetSpaces(coll, id, spaces) ==
  IF id \in DOMAIN coll
  THEN [coll EXCEPT ![id].spaces = spaces]
  ELSE coll

\* faulty variant of ModifiedCount: the handler tests result.matchedCount
MatchedCount(coll, id, spaces) ==
  IF id \in DOMAIN coll THEN 1 ELSE 0

\* result.modifiedCount of that updateOne
ModifiedCount(coll, id, spaces) ==
  IF id \in DOMAIN coll /\ coll[id].spaces # spaces THEN 1 ELSE 0

\* find({}).sort({ id: 1 }).toArray()
RECURSIVE SortedById(_)
SortedById(coll) ==
  IF DOMAIN coll = {} THEN <<>>
  ELSE LET top == CHOOSE i \in DOMAIN coll : \A j \in DOMAIN coll : j <= i
       IN  Append(SortedById([i \in (DOMAIN coll) \ {top} |-> coll[i]]), coll[top])

(* ------------------------------- state --------------------------------- *)

IdlePost ==
  [pc |-> "idle", body |-> NoBody, found |-> <<>>, k |-> 0, orderId |-> 0,
   status |-> 0, message |-> "", offender |-> 0]
IdlePut ==
  [pc |-> "idle", id |-> 0, body |-> NoPutBody, status |-> 0, result |-> NoLesson]
IdleGet == [pc |-> "idle", status |-> 0, result |-> <<>>]

Init ==
  /\ lessons = InitLessons
  /\ orders = <<>>
  /\ post = [r \in PostProcs |-> IdlePost]
  /\ put = [u \in PutProcs |-> IdlePut]
  /\ get = [g \in GetProcs |-> IdleGet]

\* no handler is between its first await and its response
Quiet ==
  /\ \A r \in PostProcs : post[r].pc \in {"idle", "done"}
  /\ \A u \in PutProcs : put[u].pc \in {"idle", "done"}
  /\ \A g \in GetProcs : get[g].pc \in {"idle", "done"}

(* --------------------------- POST /orders ------------------------------ *)

\* a request with a body of `bodies` arrives; the handler validates the body
\* and issues the find
PostStart(r, bodies) ==
  /\ post[r].pc = "idle"
  /\ \E body \in bodies :
       post' = [post EXCEPT ![r] =
         IF MissingFields(body)
         THEN [@ EXCEPT !.pc = "done", !.body = body, !.status = 400,
                        !.message = "All fields are required."]
         ELSE [@ EXCEPT !.pc = "find", !.body = body]]
  /\ UNCHANGED <<lessons, orders, put, get>>

\* the find resolves; the handler checks the result and the capacities and
\* issues the insertOne
PostFind(r) ==
  /\ post[r].pc = "find"
  /\ LET items == post[r].body.items
         found == FindIn(lessons, ItemIdsOf(items))
     IN  post' = [post EXCEPT ![r] =
           IF SomeNotFound(found, items)
           THEN [@ EXCEPT !.pc = "done", !.found = found, !.status = 404,
                          !.message = "Some lessons were not found."]
           ELSE IF FirstShort(found, items) # 0
           THEN [@ EXCEPT !.pc = "done", !.found = found, !.status = 400,
                          !.message = "Not enough spaces for lesson",
                          !.offender = items[FirstShort(found, items)].id]
           ELSE [@ EXCEPT !.pc = "insert", !.found = found]]
  /\ UNCHANGED <<lessons, orders, put, get>>

\* faulty variant of PostInsert: the deduction loop starts without the order
\* having been inserted
PostInsertSkipped(r) ==
  /\ post[r].pc = "insert"
  /\ post' = [post EXCEPT ![r].pc = "dec", ![r].k = 0]
  /\ UNCHANGED <<lessons, orders, put, get>>

\* the insertOne resolves; the handler issues the first updateOne
PostInsert(r) ==
  /\ post[r].pc = "insert"
  /\ orders' = InsertOne(orders, BuildOrder(post[r].body))
  /\ post' = [post EXCEPT ![r].pc = "dec", ![r].k = 0,
                          ![r].orderId = orders'[Len(orders')]._id]
  /\ UNCHANGED <<lessons, put, get>>

\* one updateOne of the deduction loop resolves; after the last one the
\* handler answers 201
PostDec(r) ==
  /\ post[r].pc = "dec"
  /\ LET items == post[r].body.items
         item == items[post[r].k + 1]
     IN  /\ lessons' = IncSpaces(lessons, item.id, item.quantity)
         /\ post' = [post EXCEPT ![r] =
              IF post[r].k + 1 = Len(items)
              THEN [@ EXCEPT !.pc = "done", !.k = @ + 1, !.status = 201]
              ELSE [@ EXCEPT !.k = @ + 1]]
  /\ UNCHANGED <<orders, put, get>>

\* faulty variant of PostFault: the catch block logs the error and sends nothing
PostFaultSilent(r) ==
  /\ post[r].pc \in {"find", "insert", "dec"}
  /\ post' = [post EXCEPT ![r].pc = "caught"]
  /\ UNCHANGED <<lessons, orders, put, get>>

\* the awaited store operation rejects; the catch block answers 500
PostFault(r) ==
  /\ post[r].pc \in {"find", "insert", "dec"}
  /\ post' = [post EXCEPT ![r].pc = "done", ![r].status = 500,
                          ![r].message = "An error occurred while creating the order."]
  /\ UNCHANGED <<lessons, orders, put, get>>

\* the store operation the handler awaits settles: it resolves or it rejects
PostSettle(r) == PostFind(r) \/ PostInsert(r) \/ PostDec(r) \/ PostFault(r)

(* -------------------------- PUT /lessons/:id --------------------------- *)

\* the request arrives; the handler validates the body and issues the updateOne
PutStart(u) ==
  /\ put[u].pc = "idle"
  /\ \E id \in ItemIds, body \in PutBodies :
       put' = [put EXCEPT ![u] =
         IF ~body.hasSpaces \/ body.spaces < 0
         THEN [@ EXCEPT !.pc = "done", !.id = id, !.body = body, !.status = 400]
         ELSE [@ EXCEPT !.pc = "update", !.id = id, !.body = body]]
  /\ UNCHANGED <<lessons, orders, post, get>>

\* the updateOne resolves; the handler tests modifiedCount and issues the findOne
PutUpdate(u) ==
  /\ put[u].pc = "update"
  /\ lessons' = SetSpaces(lessons, put[u].id, put[u].body.spaces)
  /\ put' = [put EXCEPT ![u] =
       IF ModifiedCount(lessons, put[u].id, put[u].body.spaces) = 0
       THEN [@ EXCEPT !.pc = "done", !.status = 404]
       ELSE [@ EXCEPT !.pc = "findOne"]]
  /\ UNCHANGED <<orders, post, get>>

\* the findOne resolves; the handler answers with the lesson read
PutFindOne(u) ==
  /\ put[u].pc = "findOne"
  /\ put' = [put EXCEPT ![u].pc = "done", ![u].status = 200,
                        ![u].result = lessons[put[u].id]]
  /\ UNCHANGED <<lessons, orders, post, get>>

\* the awaited store operation rejects; the catch block answers 500
PutFault(u) ==
  /\ put[u].pc \in {"update", "findOne"}
  /\ put' = [put EXCEPT ![u].pc = "done", ![u].status = 500]
  /\ UNCHANGED <<lessons, orders, post, get>>

(* ----------------------------- GET /lessons ---------------------------- *)

GetStart(g) ==
  /\ get[g].pc = "idle"
  /\ get' = [get EXCEPT ![g].pc = "find"]
  /\ UNCHANGED <<lessons, orders, post, put>>

GetFind(g) ==
  /\ get[g].pc = "find"
  /\ get' = [get EXCEPT ![g].pc = "done", ![g].status = 200,
                        ![g].result = SortedById(lessons)]
  /\ UNCHANGED <<lessons, orders, post, put>>

(* ---------------------- POST /orders of server.js ---------------------- *)

\* numberOfSpaces a body may carry: 0 stands for a missing or zero field
SpacesAsked == {0, 2}

\* req.body of POST /orders in src/server.js; hasLessonIds = FALSE is a body
\* without `lessonIds`
ServerBodies ==
  [name : NameVals, phoneNumber : PhoneVals, hasLessonIds : {TRUE},
   lessonIds : SeqsUpTo(ItemIds, MaxItems), numberOfSpaces : SpacesAsked]
  \cup [name : NameVals, phoneNumber : PhoneVals, hasLessonIds : {FALSE},
        lessonIds : {<<>>}, numberOfSpaces : SpacesAsked]

\* !name || !phoneNumber || !lessonIds || lessonIds.length === 0 || !numberOfSpaces
ServerMissingFields(body) ==
  \/ body.name = ""
  \/ body.phoneNumber = ""
  \/ ~body.hasLessonIds
  \/ Len(body.lessonIds) = 0
  \/ body.numberOfSpaces = 0

IdsOf(lessonIds) == {lessonIds[n] : n \in 1..Len(lessonIds)}

\* the order document: the body's fields and a snapshot of the lessons found
ServerBuildOrder(body, found) ==
  [name |-> body.name, phoneNumber |-> body.phoneNumber,
   lessonIds |-> body.lessonIds, numberOfSpaces |-> body.numberOfSpaces,
   lessons |-> [i \in DOMAIN found |-> [id |-> found[i].id, price |-> found[i].price]]]

RECURSIVE IncEach(_, _, _)
\* every lesson of `ids` gives up `quantity` places
IncEach(coll, ids, quantity) ==
  IF ids = {} THEN coll
  ELSE LET i == CHOOSE x \in ids : TRUE
       IN  IncEach(IncSpaces(coll, i, quantity), ids \ {i}, quantity)

\* the request arrives; the handler validates the body and issues the find
ServerPostStart(r) ==
  /\ post[r].pc = "idle"
  /\ \E body \in ServerBodies :
       post' = [post EXCEPT ![r] =
         IF ServerMissingFields(body)
         THEN [@ EXCEPT !.pc = "done", !.body = body, !.status = 400,
                        !.message = "All fields are required."]
         ELSE [@ EXCEPT !.pc = "find", !.body = body]]
  /\ UNCHANGED <<lessons, orders, put, get>>

\* the find resolves; the handler compares the counts, builds the order and
\* issues the insertOne
ServerPostFind(r) ==
  /\ post[r].pc = "find"
  /\ LET found == FindIn(lessons, IdsOf(post[r].body.lessonIds))
     IN  post' = [post EXCEPT ![r] =
           IF Cardinality(DOMAIN found) # Len(post[r].body.lessonIds)
           THEN [@ EXCEPT !.pc = "done", !.found = found, !.status = 404,
                          !.message = "Some lessons were not found."]
           ELSE [@ EXCEPT !.pc = "insert", !.found = found]]
  /\ UNCHANGED <<lessons, orders, put, get>>

\* faulty variant of ServerPostInsert: placing the order also takes
\* numberOfSpaces places from every lesson ordered
ServerPostInsertConsuming(r) ==
  /\ post[r].pc = "insert"
  /\ orders' = InsertOne(orders, ServerBuildOrder(post[r].body, post[r].found))
  /\ lessons' = IncEach(lessons, IdsOf(post[r].body.lessonIds),
                        post[r].body.numberOfSpaces)
  /\ post' = [post EXCEPT ![r].pc = "findOne",
                          ![r].orderId = orders'[Len(orders')]._id]
  /\ UNCHANGED <<put, get>>

\* the insertOne resolves; the handler issues the findOne of the new order
ServerPostInsert(r) ==
  /\ post[r].pc = "insert"
  /\ orders' = InsertOne(orders, ServerBuildOrder(post[r].body, post[r].found))
  /\ post' = [post EXCEPT ![r].pc = "findOne",
                          ![r].orderId = orders'[Len(orders')]._id]
  /\ UNCHANGED <<lessons, put, get>>

\* the findOne resolves; the handler answers 201 with the order read
ServerPostFindOne(r) ==
  /\ post[r].pc = "findOne"
  /\ post' = [post EXCEPT ![r].pc = "done", ![r].status = 201]
  /\ UNCHANGED <<lessons, orders, put, get>>

\* the awaited store operation rejects; the catch block answers 500
ServerPostFault(r) ==
  /\ post[r].pc \in {"find", "insert", "findOne"}
  /\ post' = [post EXCEPT ![r].pc = "done", ![r].status = 500,
                          ![r].message = "An error occurred while creating the order."]
  /\ UNCHANGED <<lessons, orders, put, get>>

(* --------------------------- specifications ---------------------------- *)

\* every handler, overlapping, with storage faults
Next ==
  \/ \E r \in PostProcs : PostStart(r, TripleBodies)
  \/ \E r \in PostProcs : PostFind(r)
  \/ \E r \in PostProcs : PostInsert(r)
  \/ \E r \in PostProcs : PostDec(r)
  \/ \E r \in PostProcs : PostFault(r)
  \/ \E u \in PutProcs : PutStart(u)
  \/ \E u \in PutProcs : PutUpdate(u)
  \/ \E u \in PutProcs : PutFindOne(u)
  \/ \E u \in PutProcs : PutFault(u)

Spec == Init /\ [][Next]_vars

\* overlapping POST /orders requests alone: no PUT /lessons/:id, no storage fault
NextOrders ==
  \/ \E r \in PostProcs : PostStart(r, PlainBodies)
  \/ \E r \in PostProcs : PostFind(r)
  \/ \E r \in PostProcs : PostInsert(r)
  \/ \E r \in PostProcs : PostDec(r)

SpecOrders == Init /\ [][NextOrders]_vars

\* one request at a time (a request starts only when no handler is in flight),
\* no storage fault: a PUT /lessons/:id and a POST /orders in either order
NextSeq ==
  \/ Quiet /\ PostStart("p1", OrderBodies)
  \/ PostFind("p1")
  \/ PostInsert("p1")
  \/ PostDec("p1")
  \/ \E u \in PutProcs : Quiet /\ PutStart(u)
  \/ \E u \in PutProcs : PutUpdate(u)
  \/ \E u \in PutProcs : PutFindOne(u)

SpecSeq == Init /\ [][NextSeq]_vars

\* a POST /orders request overlapping a GET /lessons
NextRead ==
  \/ PostStart("p1", PlainBodies)
  \/ PostFind("p1")
  \/ PostInsert("p1")
  \/ PostDec("p1")
  \/ \E g \in GetProcs : GetStart(g)
  \/ \E g \in GetProcs : GetFind(g)

SpecRead == Init /\ [][NextRead]_vars

\* one POST /orders request whose quantities may be zero or negative
NextLoose ==
  \/ PostStart("p1", LooseBodies)
  \/ PostFind("p1")
  \/ PostInsert("p1")
  \/ PostDec("p1")

SpecLoose == Init /\ [][NextLoose]_vars

\* overlapping POST /orders requests with storage faults; every awaited store
\* operation eventually settles and the event loop then runs the handler on
NextLive ==
  \/ \E r \in PostProcs : PostStart(r, TripleBodies)
  \/ \E r \in PostProcs : PostSettle(r)

SpecLive ==
  Init /\ [][NextLive]_vars /\ \A r \in PostProcs : WF_vars(PostSettle(r))

\* src/server.js: a POST /orders request overlapping a PUT /lessons/:id, with
\* storage faults
NextServer ==
  \/ ServerPostStart("p1")
  \/ ServerPostFind("p1")
  \/ ServerPostInsert("p1")
  \/ ServerPostFindOne("p1")
  \/ ServerPostFault("p1")
  \/ \E u \in PutProcs : PutStart(u)
  \/ \E u \in PutProcs : PutUpdate(u)
  \/ \E u \in PutProcs : PutFindOne(u)
  \/ \E u \in PutProcs : PutFault(u)

SpecServer == Init /\ [][NextServer]_vars

(* ------------------------- properties: helpers ------------------------- *)

Responded(r) == post[r].pc = "done"

\* the quantity the line items of `items` order of lesson `id`
RECURSIVE QtyFor(_, _)
QtyFor(items, id) ==
  IF Len(items) = 0 THEN 0
  ELSE QtyFor(SubSeq(items, 1, Len(items) - 1), id)
         + (IF items[Len(items)].id = id THEN items[Len(items)].quantity ELSE 0)

\* the quantity of lesson `id` ordered by the requests of `procs` answered 201
RECURSIVE Accepted(_, _)
Accepted(procs, id) ==
  IF procs = {} THEN 0
  ELSE LET r == CHOOSE x \in procs : TRUE
       IN  (IF post[r].status = 201 THEN QtyFor(post[r].body.items, id) ELSE 0)
             + Accepted(procs \ {r}, id)

\* the order of request r is in the orders collection
OrderStored(r) == \E n \in 1..Len(orders) : orders[n]._id = post[r].orderId

\* the step is a step of the POST handler r
PostStep(r) == post'[r] # post[r]

(* ------------------------------- C1 ------------------------------------ *)

\* C1 (as claimed): under overlapping POST /orders requests and no PUT, no
\* lesson's spaces is ever negative and the quantities of the requests
\* answered 201 never add up to more than the lesson's initial capacity.
C1_NoOversell ==
  \A id \in DOMAIN lessons :
    /\ lessons[id].spaces >= 0
    /\ Accepted(PostProcs, id) <= InitLessons[id].spaces

(* ------------------------------- C7 ------------------------------------ *)

\* C7: once every overlapping POST /orders request has been answered (no PUT,
\* no storage fault), each lesson's spaces is its initial capacity minus the
\* quantities ordered of it by exactly the requests answered 201.
C7_CapacityAccounting ==
  (\A r \in PostProcs : Responded(r)) =>
    \A id \in DOMAIN lessons :
      lessons[id].spaces = InitLessons[id].spaces - Accepted(PostProcs, id)

\* two overlapping requests for 3 places of lesson 1 (capacity 5) are both
\* answered 201, next to a state where the accounting still adds up
C7_Witness ==
  /\ \A r \in PostProcs : post[r].status = 201 /\ QtyFor(post[r].body.items, 1) = 3
  /\ lessons[1].spaces = -1

(* ------------------------------- C2 ------------------------------------ *)

\* two line items on different existing lessons of `coll`, one within the
\* lesson's spaces and the other above it, in either order
OneWithinOneAbove(items, coll) ==
  /\ Len(items) = 2
  /\ items[1].id # items[2].id
  /\ items[1].id \in DOMAIN coll /\ items[2].id \in DOMAIN coll
  /\ \E a, b \in 1..2 :
       /\ a # b
       /\ items[a].quantity <= coll[items[a].id].spaces
       /\ items[b].quantity > coll[items[b].id].spaces

\* C2: a POST /orders request whose two line items are one within capacity
\* and one above it (either order) changes nothing when it arrives, and the
\* step that resolves its lessons ends it with a rejection, no order
\* inserted, and the lessons and the orders collection as they were.
C2_AllOrNothing ==
  [][\A r \in PostProcs :
       /\ (post[r].pc = "idle" /\ PostStep(r)) =>
            (lessons' = lessons /\ orders' = orders)
       /\ (/\ post[r].pc = "find"
           /\ PostStep(r)
           /\ OneWithinOneAbove(post[r].body.items, lessons)) =>
            /\ post'[r].pc = "done"
            /\ post'[r].status \in {400, 500}
            /\ post'[r].status = 400 => post'[r].offender \in ItemIdsOf(post[r].body.items)
            /\ post'[r].orderId = 0
            /\ lessons' = lessons
            /\ orders' = orders]_vars

\* a request [(A, within), (B, above)] was answered 400 naming B
C2_Witness ==
  \E r \in PostProcs :
    /\ Responded(r) /\ post[r].status = 400
    /\ Len(post[r].body.items) = 2
    /\ OneWithinOneAbove(post[r].body.items, post[r].found)
    /\ post[r].offender = post[r].body.items[2].id

(* ------------------------------- C3 ------------------------------------ *)

\* the order of request r is stored and not all of its decrements are applied
PartlyCommitted(r) == OrderStored(r) /\ post[r].k < Len(post[r].body.items)

\* C3 (as claimed): the find of a GET /lessons never reads the store while a
\* POST /orders request is partly committed.
C3_NoPartialRead ==
  [][\A g \in GetProcs :
       (get[g].pc = "find" /\ get'[g].pc = "done") =>
         ~ \E r \in PostProcs : PartlyCommitted(r)]_vars

(* ------------------------------- C4 ------------------------------------ *)

\* C4 (as claimed): a request answered 400, 404 or 500 has no order in the
\* orders collection and none of its decrements applied.
C4_NoPartialProgress ==
  \A r \in PostProcs :
    (Responded(r) /\ post[r].status \in {400, 404, 500}) =>
      (~ OrderStored(r) /\ post[r].k = 0)

(* ------------------------------- C5 ------------------------------------ *)

\* some line item of the body names an id that is not in the lessons collection
NamesUnknown(body) == \E id \in ItemIdsOf(body.items) : id \notin DOMAIN lessons

\* C5: no step of a POST /orders request that names an unknown lesson id
\* changes any lesson or the orders collection, whatever its other line
\* items are, and the request, once past the required-fields check, is
\* answered 404 (500 if the find itself fails).
C5_UnknownItem ==
  /\ [][\A r \in PostProcs :
          (PostStep(r) /\ NamesUnknown(post'[r].body)) =>
            (lessons' = lessons /\ orders' = orders)]_vars
  /\ [](\A r \in PostProcs :
          (Responded(r) /\ NamesUnknown(post[r].body)) =>
            /\ ~ OrderStored(r)
            /\ post[r].k = 0
            /\ IF MissingFields(post[r].body)
               THEN post[r].status = 400
               ELSE post[r].status \in {404, 500})

\* a request naming an existing lesson and an unknown one was answered 404
C5_Witness ==
  \E r \in PostProcs :
    /\ Responded(r) /\ post[r].status = 404
    /\ Len(post[r].body.items) = 2
    /\ post[r].body.items[1].id \in DOMAIN lessons
    /\ post[r].body.items[2].id \notin DOMAIN lessons

(* ------------------------------- C6 ------------------------------------ *)

\* some line item asks for more than the spaces read for its lesson
SomeAbove(items, found) ==
  \E n \in 1..Len(items) :
    items[n].id \in DOMAIN found /\ items[n].quantity > found[items[n].id].spaces

\* no id is listed by two line items
DistinctIds(items) ==
  \A m, n \in 1..Len(items) : m # n => items[m].id # items[n].id

\* the answer the claim gives a request, from its body and the lessons it read
Outcome(r) ==
  IF MissingFields(post[r].body)
  THEN post[r].status = 400 /\ post[r].message = "All fields are required."
       /\ post[r].found = <<>> /\ post[r].orderId = 0
  ELSE IF NamesUnknown(post[r].body)
  THEN post[r].status = 404
  ELSE IF SomeAbove(post[r].body.items, post[r].found)
  THEN post[r].status = 400 /\ post[r].message = "Not enough spaces for lesson"
       /\ \E n \in 1..Len(post[r].body.items) :
            /\ post[r].body.items[n].id = post[r].offender
            /\ post[r].body.items[n].quantity > post[r].found[post[r].offender].spaces
       /\ post[r].orderId = 0
  ELSE post[r].status = 201

\* the step that answers 201 leaves every ordered lesson with the spaces the
\* request read for it less the quantity ordered
Deducted(r) ==
  (post[r].pc # "done" /\ post'[r].pc = "done" /\ post'[r].status = 201) =>
    \A n \in 1..Len(post[r].body.items) :
      LET it == post[r].body.items[n]
      IN  lessons'[it.id].spaces = post[r].found[it.id].spaces - it.quantity

\* C6 (as claimed): with no overlapping request, every POST /orders request is
\* answered 400 for missing fields before any store access, else 404 when an id
\* is unresolved, else 400 naming the lesson exactly when a line item asks for
\* more than the lesson's spaces, else 201 with each lesson's spaces reduced by
\* exactly the quantity ordered.
C6_SequentialOutcome_AsClaimed ==
  /\ [](\A r \in PostProcs : Responded(r) => Outcome(r))
  /\ [][\A r \in PostProcs : Deducted(r)]_vars

\* C6 (amended): the same for the requests whose line items name pairwise
\* distinct ids; a request listing an existing id twice is answered 404.
C6_SequentialOutcome ==
  /\ [](\A r \in PostProcs :
          Responded(r) =>
            IF MissingFields(post[r].body) \/ DistinctIds(post[r].body.items)
            THEN Outcome(r)
            ELSE post[r].status = 404 /\ post[r].orderId = 0)
  /\ [][\A r \in PostProcs : DistinctIds(post[r].body.items) => Deducted(r)]_vars

\* a request for a lesson whose spaces is 0 was answered 400 naming it, and
\* the lesson's spaces is still 0
C6_Witness ==
  \E r \in PostProcs :
    /\ Responded(r) /\ post[r].status = 400
    /\ Len(post[r].body.items) = 1
    /\ post[r].offender = post[r].body.items[1].id
    /\ post[r].found[post[r].offender].spaces = 0
    /\ lessons[post[r].offender].spaces = 0

(* ------------------------------- C8 ------------------------------------ *)

\* sum over the line items of (catalog price * quantity)
RECURSIVE CatalogTotal(_)
CatalogTotal(items) ==
  IF Len(items) = 0 THEN 0
  ELSE CatalogTotal(SubSeq(items, 1, Len(items) - 1))
         + lessons[items[Len(items)].id].price * items[Len(items)].quantity

\* C8 (as claimed): every stored order carries, on each line item, the catalog
\* price of the lesson, and its totalPrice is the sum of catalog price *
\* quantity (no handler changes a catalog price, so the price read at resolve
\* time is the price in the lessons collection).
C8_SnapshotPricing ==
  \A n \in 1..Len(orders) :
    /\ \A m \in 1..Len(orders[n].items) :
         orders[n].items[m].price = lessons[orders[n].items[m].id].price
    /\ orders[n].totalPrice = CatalogTotal(orders[n].items)

(* ------------------------------- C9 ------------------------------------ *)

\* C9: no step of any handler removes or alters a stored order: the orders
\* collection only grows and every order in it stays as it was inserted.
C9_WriteOnce ==
  [][/\ Len(orders') >= Len(orders)
     /\ \A n \in 1..Len(orders) : orders'[n] = orders[n]]_vars

\* two orders are stored, both requests answered 201, and a PUT /lessons/:id
\* has been answered 200
C9_Witness ==
  /\ Len(orders) = 2
  /\ \E u \in PutProcs : put[u].status = 200
  /\ \A r \in PostProcs : post[r].status = 201

(* ------------------------------- C10 ----------------------------------- *)

\* the body of a PUT carries a spaces value >= 0
ValidSpaces(body) == body.hasSpaces /\ body.spaces >= 0

\* no POST /orders request names lesson `id`
NotOrdered(id) == \A r \in PostProcs : id \notin ItemIdsOf(post[r].body.items)

\* C10 (as claimed): a PUT /lessons/:id that is answered without a storage
\* fault succeeds exactly when its spaces value is >= 0 and the id exists, and
\* then returns the lesson with spaces equal to the requested value.
C10_AdjustCapacity_AsClaimed ==
  \A u \in PutProcs :
    (put[u].pc = "done" /\ put[u].status # 500) =>
      IF ValidSpaces(put[u].body) /\ put[u].id \in DOMAIN lessons
      THEN put[u].status = 200 /\ put[u].result.spaces = put[u].body.spaces
      ELSE put[u].status \in {400, 404}

\* C10 (amended): a PUT whose spaces is missing or negative is answered 400
\* without touching the store; otherwise its update sets the lesson's spaces to
\* the requested value when the id exists and the value differs from the
\* current one, and else changes nothing and is answered 404; a PUT answered
\* 200 returns the lesson as read back, with the requested spaces when no
\* POST /orders request names that lesson.
C10_AdjustCapacity ==
  /\ [][\A u \in PutProcs :
          /\ (put[u].pc = "idle" /\ put'[u] # put[u]) =>
               /\ lessons' = lessons
               /\ IF ValidSpaces(put'[u].body)
                  THEN put'[u].pc = "update"
                  ELSE put'[u].pc = "done" /\ put'[u].status = 400
          /\ (put[u].pc = "update" /\ put'[u] # put[u] /\ put'[u].status # 500) =>
               IF /\ put[u].id \in DOMAIN lessons
                  /\ lessons[put[u].id].spaces # put[u].body.spaces
               THEN /\ lessons' = [lessons EXCEPT ![put[u].id].spaces = put[u].body.spaces]
                    /\ put'[u].pc = "findOne"
               ELSE /\ lessons' = lessons
                    /\ put'[u].pc = "done" /\ put'[u].status = 404
          /\ (put[u].pc = "findOne" /\ put'[u] # put[u]) => lessons' = lessons]_vars
  /\ [](\A u \in PutProcs :
          (put[u].pc = "done" /\ put[u].status = 200) =>
            /\ put[u].result.id = put[u].id
            /\ NotOrdered(put[u].id) => put[u].result.spaces = put[u].body.spaces)

\* a PUT was answered 200 with the requested spaces while a POST /orders
\* request for another lesson was between its insertOne and its response
C10_Witness ==
  \E u \in PutProcs :
    /\ put[u].pc = "done" /\ put[u].status = 200
    /\ put[u].result.spaces = put[u].body.spaces
    /\ \E r \in PostProcs : post[r].pc = "dec" /\ NotOrdered(put[u].id)

(* ------------------------------- C11 ----------------------------------- *)

\* request r is the only writer: every other POST handler and every PUT
\* handler is idle
OnlyWriter(r) ==
  /\ \A q \in PostProcs \ {r} : post[q].pc = "idle"
  /\ \A u \in PutProcs : put[u].pc = "idle"

\* C11: a request answered 201 has its order in the orders collection and
\* every one of its decrements applied, and the find of a GET /lessons that
\* runs after the 201 (no other writer) reads every lesson with its spaces
\* reduced by the quantity ordered of it.
C11_SuccessAfterEffects ==
  /\ [](\A r \in PostProcs :
          post[r].status = 201 =>
            OrderStored(r) /\ post[r].k = Len(post[r].body.items))
  /\ [][\A g \in GetProcs, r \in PostProcs :
          (/\ get[g].pc = "find" /\ get'[g].pc = "done"
           /\ post[r].status = 201 /\ OnlyWriter(r)) =>
            /\ Len(get'[g].result) = Cardinality(DOMAIN lessons)
            /\ \A n \in 1..Len(get'[g].result) :
                 get'[g].result[n].spaces =
                   InitLessons[get'[g].result[n].id].spaces
                     - QtyFor(post[r].body.items, get'[g].result[n].id)]_vars

\* a request for 3 places of lesson 1 was answered 201 and a GET /lessons
\* has read lesson 1 with 2 spaces
C11_Witness ==
  \E r \in PostProcs, g \in GetProcs :
    /\ post[r].status = 201
    /\ Len(post[r].body.items) = 1 /\ QtyFor(post[r].body.items, 1) = 3
    /\ get[g].pc = "done" /\ get[g].result[1].spaces = 2

(* ------------------------------- C12 ----------------------------------- *)

\* C12: a request that lists a lesson id in two or more line items is always
\* rejected: none of its steps changes a lesson or the orders collection, and
\* it is answered 404 (400 when a required field is missing as well, 500 when
\* the find fails), never 201, with no order stored and no decrement applied.
C12_DuplicatePolicy ==
  /\ [][\A r \in PostProcs :
          (PostStep(r) /\ ~ DistinctIds(post'[r].body.items)) =>
            (lessons' = lessons /\ orders' = orders)]_vars
  /\ [](\A r \in PostProcs :
          (Responded(r) /\ ~ DistinctIds(post[r].body.items)) =>
            /\ post[r].orderId = 0 /\ post[r].k = 0
            /\ IF MissingFields(post[r].body)
               THEN post[r].status = 400
               ELSE post[r].status \in {404, 500})

\* a request listing lesson 1 twice, each entry within the spaces read for
\* the lesson, was answered 404
C12_Witness ==
  \E r \in PostProcs :
    /\ Responded(r) /\ post[r].status = 404
    /\ Len(post[r].body.items) = 2
    /\ post[r].body.items[1].id = 1 /\ post[r].body.items[2].id = 1
    /\ 1 \in DOMAIN post[r].found
    /\ post[r].found[1].spaces >= post[r].body.items[1].quantity
    /\ post[r].found[1].spaces >= post[r].body.items[2].quantity

(* ------------------------------- C13 ----------------------------------- *)

\* C13 (as claimed): no step of a POST /orders request leaves a lesson with
\* more spaces than it had, and every stored order has a quantity > 0 on
\* every line item.
C13_OnlyConsumes ==
  /\ [][\A r \in PostProcs :
          PostStep(r) =>
            \A id \in DOMAIN lessons : lessons'[id].spaces <= lessons[id].spaces]_vars
  /\ [](\A n \in 1..Len(orders) :
          \A m \in 1..Len(orders[n].items) : orders[n].items[m].quantity > 0)

(* ------------------------------- C14 ----------------------------------- *)

\* C14: every POST /orders request that has arrived is eventually answered;
\* the answer is 201, 400, 404 or 500, nothing is sent before it, and once
\* sent it is never replaced by another.
C14_Terminates ==
  /\ \A r \in PostProcs : (post[r].pc # "idle") ~> Responded(r)
  /\ [](\A r \in PostProcs :
          IF Responded(r)
          THEN post[r].status \in {201, 400, 404, 500}
          ELSE post[r].status = 0)
  /\ [][\A r \in PostProcs : Responded(r) => post'[r] = post[r]]_vars

\* of two overlapping requests one was answered 201 and the other, whose
\* store operation threw, 500
C14_Witness ==
  \E r, q \in PostProcs :
    /\ Responded(r) /\ post[r].status = 201
    /\ Responded(q) /\ post[q].status = 500

(* ------------------------------- C15 ----------------------------------- *)

\* C15: whenever a decrement of a request has been applied, the order built
\* from that request's body is in the orders collection under the _id the
\* request's insertOne returned.
C15_OrderBeforeDecrement ==
  \A r \in PostProcs :
    post[r].k > 0 =>
      \E n \in 1..Len(orders) :
        orders[n] = BuildOrder(post[r].body) @@ [_id |-> post[r].orderId]

\* the first of a request's two decrements is applied, the second is not
C15_Witness ==
  \E r \in PostProcs :
    /\ post[r].pc = "dec" /\ post[r].k = 1
    /\ Len(post[r].body.items) = 2
    /\ lessons[post[r].body.items[1].id].spaces
         = post[r].found[post[r].body.items[1].id].spaces
             - post[r].body.items[1].quantity

(* ------------------------------- C16 ----------------------------------- *)

\* a step of the updateOne of a PUT /lessons/:id request
PutWrites ==
  \E u \in PutProcs : put[u].pc = "update" /\ put'[u].pc # "update"

\* C16: in src/server.js no step of a POST /orders handler changes a lesson,
\* whatever the request and however it ends (201, 400, 404 or 500); a lesson's
\* spaces change only in the updateOne step of a PUT /lessons/:id, and the
\* order stored records numberOfSpaces without any lesson giving up places.
C16_ServerLeavesSpaces ==
  /\ [][\A r \in PostProcs : (post'[r] # post[r]) => lessons' = lessons]_vars
  /\ [][(lessons' # lessons) => PutWrites]_vars
  /\ [](\A r \in PostProcs :
          post[r].pc = "done" => post[r].status \in {201, 400, 404, 500})
  /\ []((\A u \in PutProcs : put[u].pc = "idle") => lessons = InitLessons)

\* an order for 2 places in both lessons is answered 201 and stored while no
\* PUT request was made, and the catalog is as at start-up
C16_Witness ==
  \E r \in PostProcs :
    /\ post[r].status = 201
    /\ post[r].body.numberOfSpaces = 2
    /\ IdsOf(post[r].body.lessonIds) = {1, 2}
    /\ \E n \in 1..Len(orders) : orders[n]._id = post[r].orderId
    /\ \A u \in PutProcs : put[u].pc = "idle"
    /\ lessons = InitLessons

====
